---- MODULE Spec2Model ----
(***************************************************************************)
(* eisenscript_to_xml.py: the translation of EisenScript text into the     *)
(* eisenxml rule document.                                                 *)
(*                                                                         *)
(* Text is modelled by strings; a source file is modelled by the sequence  *)
(* of its top-level statements (calls, rule definitions, a global          *)
(* "set maxdepth", "#define" directives), each statement by its parts.     *)
(* The names used in the sources below are lexically unambiguous (no rule  *)
(* name starts with a shape keyword), so the grammar's classification of a *)
(* call depends only on its name and its number of loops.                  *)
(*                                                                         *)
(* Attribute assignment on parse results (t.tid = ...) is modelled as      *)
(* pyparsing 2.x performs it: the assignment is kept on the object.        *)
(***************************************************************************)
EXTENDS Integers, Sequences, FiniteSets, TLC

VARIABLES
    pc,              \* position of the driver inside translate_eisen
    ndocs,           \* documents es_xml2 has returned in this process
    xml_dir_exists,  \* os.path.exists(xml_dir)
    src,             \* text of the file being translated
    xml_file,        \* the output file at xml_filename of the file being translated
    results,         \* parse results (translate_eisen's local)
    n,               \* the counter most recently created by es_xml2
    top,             \* es_xml2's document under construction
    grp,             \* es_xml2: 0 in the entry loop, k in the k-th rule_def
    pos,             \* es_xml2: calls of the current group already handled
    cur,             \* es_xml2: index in top of the element `entry` / `rule`
    xml,             \* the document es_xml2 returned (translate_eisen's local)
    trans_list,      \* normalizer runs: the transform list object
    out              \* normalizer runs: the strings trans_str returned

vars == <<pc, ndocs, xml_dir_exists, src, xml_file, results, n, top, grp, pos,
          cur, xml, trans_list, out>>

mainvars == <<pc, ndocs, xml_dir_exists, src, xml_file, results, n, top, grp,
              pos, cur, xml>>

(***************************************************************************)
(* Bounds                                                                  *)
(***************************************************************************)
MaxItems == 3
MaxDocs == 2
NestedCalls == 101
MaxTrans == 2
MaxApply == 2

BoundedSeq(S, k) == UNION {[1..m -> S] : m \in 0..k}

None == <<>>

(***************************************************************************)
(* Strings                                                                 *)
(***************************************************************************)
RECURSIVE join(_, _)
join(sep, strs) ==
    IF Len(strs) = 0 THEN ""
    ELSE IF Len(strs) = 1 THEN strs[1]
    ELSE strs[1] \o sep \o join(sep, Tail(strs))

RECURSIVE rstrip(_)
rstrip(s) ==
    IF Len(s) > 0 /\ SubSeq(s, Len(s), Len(s)) = " "
    THEN rstrip(SubSeq(s, 1, Len(s) - 1))
    ELSE s

RECURSIVE lstrip(_)
lstrip(s) ==
    IF Len(s) > 0 /\ SubSeq(s, 1, 1) = " "
    THEN lstrip(SubSeq(s, 2, Len(s)))
    ELSE s

strip(s) == lstrip(rstrip(s))

\* '_{:02d}'.format(k)
format_02d(k) == IF k < 10 THEN "_0" \o ToString(k) ELSE "_" \o ToString(k)

(***************************************************************************)
(* Transform Normalizer                                                    *)
(***************************************************************************)
\* len(t) of a parsed transform group: the tid token and the value tokens
tlen(t) == 1 + Len(t.tvalues)

\* variant of set_sa: the test of len(t) is left out
scale_all_bug(t) == IF t.tid = "s" THEN [t EXCEPT !.tid = "sa"] ELSE t

\* lines 45-46
set_sa(t) == IF t.tid = "s" /\ tlen(t) = 2 THEN [t EXCEPT !.tid = "sa"] ELSE t

\* lines 47-48
set_txyz(t) == IF t.tid \in {"x", "y", "z"} THEN [t EXCEPT !.tid = "t" \o t.tid] ELSE t

\* the transform object after one pass of the loop body
renamed(t) == set_txyz(set_sa(t))

\* variant of tstr_strip: the string is returned as built
no_strip(s) == s

\* line 51
tstr_strip(s) == strip(s)

RECURSIVE tstr_loop(_, _)
tstr_loop(tstr, tl) ==
    IF Len(tl) = 0 THEN tstr
    ELSE LET t == renamed(tl[1])
         IN tstr_loop(tstr \o t.tid \o " " \o join(" ", t.tvalues) \o " ", Tail(tl))

\* the string trans_str returns
trans_str(tl) == tstr_strip(tstr_loop("", tl))

\* the list trans_str leaves behind (t.tid is assigned in place)
trans_str_effect(tl) == [i \in 1..Len(tl) |-> renamed(tl[i])]

(***************************************************************************)
(* Source text                                                             *)
(***************************************************************************)
Tids == {"x", "y", "z", "s", "rx", "ry", "rz"}
Cids == {"h", "hue", "sat", "b", "brightness", "a", "alpha", "m"}
ShapeWords == {"box", "grid", "sphere", "line"}

Clause(tid, tvalues) == [tid |-> tid, tvalues |-> tvalues]
LoopSrc(count, clauses) == [count |-> count, clauses |-> clauses]
CallSrc(loops, name) == [t |-> "call", loops |-> loops, name |-> name]
RuleSrc(name, wm, md, successor, body) ==
    [t |-> "rule", name |-> name, wm |-> wm, md |-> md, successor |-> successor,
     body |-> body]
Define == [t |-> "define"]
SetMd == [t |-> "set_md", global_md |-> "20"]

\* 3 * { ry 10 }
LoopA == LoopSrc("3", <<Clause("ry", <<"10">>)>>)
\* 2 * { rz 5 }
LoopB == LoopSrc("2", <<Clause("rz", <<"5">>)>>)
\* { s 2 hue 120 y 1 }
LoopC == LoopSrc("", <<Clause("s", <<"2">>), Clause("hue", <<"120">>), Clause("y", <<"1">>)>>)
\* 3 * { x 1 }
LoopD == LoopSrc("3", <<Clause("x", <<"1">>)>>)
\* 4 * { s 1 1 1 }
LoopE == LoopSrc("4", <<Clause("s", <<"1", "1", "1">>)>>)

CallBox == CallSrc(<<>>, "box")
CallBox1 == CallSrc(<<LoopD>>, "box")
CallBox2 == CallSrc(<<LoopD, LoopC>>, "box")
CallFoo1 == CallSrc(<<LoopC>>, "foo")
CallFoo2 == CallSrc(<<LoopA, LoopB>>, "foo")
CallFoo3 == CallSrc(<<LoopB, LoopA, LoopE>>, "foo")

\* rule foo w 2 { {s 2 hue 120 y 1} foo  3 * {x 1} box }
RuleFooW == RuleSrc("foo", "2", "", "", <<CallFoo1, CallBox1>>)
\* rule foo { 3 * {x 1} box  3 * {ry 10} 2 * {rz 5} foo  box }
RuleFoo == RuleSrc("foo", "", "", "", <<CallBox1, CallFoo2, CallBox>>)
\* rule foo_00 md 3 > foo { box }
RuleFoo00 == RuleSrc("foo_00", "", "3", "foo", <<CallBox>>)
\* rule bar { box #define k 2 }
RuleBad == RuleSrc("bar", "", "", "", <<CallBox, Define>>)

Items == {CallBox1, CallBox2, CallFoo1, CallFoo2, CallFoo3,
          RuleFooW, RuleFoo, RuleFoo00, RuleBad, Define, SetMd}

\* NestedCalls doubly-looped calls of foo in the entry block, then rule foo
ManyNested ==
    [i \in 1..(NestedCalls + 1) |-> IF i <= NestedCalls THEN CallFoo2 ELSE RuleFoo]

Sources == BoundedSeq(Items, MaxItems) \cup {ManyNested}

(***************************************************************************)
(* Grammar Parser                                                          *)
(***************************************************************************)
\* trans = gtrans | ctrans | ...: only gtrans carries the results name 'trans'
is_gtrans(c) == c.tid \in Tids

parse_loop(l) == [count |-> l.count, trans |-> SelectSeq(l.clauses, is_gtrans)]

parse_loops(ls) == [i \in 1..Len(ls) |-> parse_loop(ls[i])]

\* shape_call = Optional(loop) + shape
is_shape_call(c) == Len(c.loops) <= 1 /\ c.name \in ShapeWords

\* rule_call = ZeroOrMore(loop) + rule_name, tried after shape_call
is_rule_call(c) == ~is_shape_call(c) /\ c.name # "rule"

\* the results of one call: inside a loop group the names trans and count stay
\* in the group, so at the level of the call they are empty
parse_bcall(c) == [shape |-> c.name, loop |-> parse_loops(c.loops), trans |-> <<>>, count |-> ""]

parse_rcall(c) == [rule_name |-> <<c.name>>, loop |-> parse_loops(c.loops), trans |-> <<>>, count |-> ""]

\* the listAllMatches names bcall and rcall collect the calls of a group
bcalls(cs) ==
    LET sel == SelectSeq(cs, is_shape_call) IN [i \in 1..Len(sel) |-> parse_bcall(sel[i])]

rcalls(cs) ==
    LET sel == SelectSeq(cs, is_rule_call) IN [i \in 1..Len(sel) |-> parse_rcall(sel[i])]

is_call(it) == it.t = "call"

\* rule = 'rule' name modifiers '{' OneOrMore(call) '}'
is_rule(it) ==
    /\ it.t = "rule"
    /\ Len(it.body) >= 1
    /\ \A i \in 1..Len(it.body) : is_call(it.body[i])

parse_rule(r) ==
    [name |-> <<r.name>>, wm |-> r.wm, md |-> r.md,
     successor_rule |-> IF r.successor = "" THEN <<>> ELSE <<r.successor>>,
     bcall |-> bcalls(r.body), rcall |-> rcalls(r.body)]

\* OneOrMore(call): the index of the last statement of the run of calls from i
RECURSIVE entry_end(_, _)
entry_end(s, i) ==
    IF i <= Len(s) /\ is_call(s[i]) THEN entry_end(s, i + 1) ELSE i - 1

\* OneOrMore(rule): the index of the last statement of the run of rules from i
RECURSIVE main_end(_, _)
main_end(s, i) ==
    IF i <= Len(s) /\ is_rule(s[i]) THEN main_end(s, i + 1) ELSE i - 1

has_global_md(s) == Len(s) >= 1 /\ s[1].t = "set_md"

entry_start(s) == IF has_global_md(s) THEN 2 ELSE 1

\* file_def = Optional(global_md) + entry + main
matches(s) ==
    LET e0 == entry_start(s)
        e1 == entry_end(s, e0)
    IN e1 >= e0 /\ main_end(s, e1 + 1) >= e1 + 1

\* parseFile without parseAll: the text after the last match is not looked at
parseFile(s) ==
    LET e0 == entry_start(s)
        e1 == entry_end(s, e0)
        r1 == main_end(s, e1 + 1)
    IN [global_md |-> IF has_global_md(s) THEN s[1].global_md ELSE "",
        entry_calls |-> << [bcall |-> bcalls(SubSeq(s, e0, e1)),
                            rcall |-> rcalls(SubSeq(s, e0, e1))] >>,
        rule_defs |-> << [k \in 1..(r1 - e1) |-> parse_rule(s[e1 + k])] >>]

(***************************************************************************)
(* Rule Graph Builder                                                      *)
(***************************************************************************)
\* ET.Element / ET.SubElement: a tag, an attribute dictionary, children
Element(tag) == [tag |-> tag, attrib |-> <<>>, children |-> <<>>]

\* elem.set(key, value)
set(elem, key, value) == [elem EXCEPT !.attrib = (key :> value) @@ @]

\* `if count: elem.set('count', count)`
set_count(elem, count) == IF count # "" THEN set(elem, "count", count) ELSE elem

\* the call element of one loop: its transforms, its count, its target
call_element(call_type, trans, count, atr_name, atr_value) ==
    set(set_count(set(Element(call_type), "transforms", trans_str(trans)), count),
        atr_name, atr_value)

\* ET.SubElement(top, 'rule') and what is set on it
add_rule(t, relem) == [t EXCEPT !.children = Append(@, relem)]

\* ET.SubElement(rule, call_type), rule being the child of top at index r
add_call(t, r, celem) == [t EXCEPT !.children[r].children = Append(@, celem)]

\* next(n): the counter moves on by one
next_after(k) == k + 1

\* variant of site_loop: the call site takes pcall.loop[1]
inner_loop_first(pcall) == 2

\* the loop whose transforms go to the call site: pcall.loop[0]
site_loop(pcall) == 1

\* variant of sub_loop: the synthesized rule takes pcall.loop[-1]
last_loop(pcall) == Len(pcall.loop)

\* the loop whose transforms go to the synthesized rule: pcall.loop[1]
sub_loop(pcall) == 2

\* es_call(top, rule, pcall, is_bcall, n): the document and the counter after
es_call(t, r, pcall, is_bcall, k) ==
    LET call_type == IF is_bcall THEN "instance" ELSE "call"
        atr_name == IF is_bcall THEN "shape" ELSE "rule"
        atr_value == IF is_bcall THEN pcall.shape ELSE pcall.rule_name[1]
    IN IF Len(pcall.loop) = 0
       THEN [top |-> add_call(t, r, call_element(call_type, pcall.trans, pcall.count,
                                                 atr_name, atr_value)),
             n |-> k]
       ELSE IF Len(pcall.loop) = 1
       THEN [top |-> add_call(t, r, call_element(call_type, pcall.loop[1].trans,
                                                 pcall.loop[1].count, atr_name, atr_value)),
             n |-> k]
       ELSE LET newname == atr_value \o format_02d(k)
                outer == pcall.loop[site_loop(pcall)]
                inner == pcall.loop[sub_loop(pcall)]
                call == call_element(call_type, outer.trans, outer.count, atr_name, newname)
                newcall == call_element("call", inner.trans, inner.count, atr_name, atr_value)
                newrule == [set(Element("rule"), "name", newname)
                                EXCEPT !.children = <<newcall>>]
            IN [top |-> add_rule(add_call(t, r, call), newrule), n |-> next_after(k)]

\* variant of call_order: the rcall loop runs before the bcall loop
rcalls_first(p) ==
    [i \in 1..Len(p.rcall) |-> [pcall |-> p.rcall[i], is_bcall |-> FALSE]]
    \o [i \in 1..Len(p.bcall) |-> [pcall |-> p.bcall[i], is_bcall |-> TRUE]]

\* `for c in p.bcall: ...` then `for c in p.rcall: ...`: the calls es_xml2 hands
\* to es_call for one group, in the order it does
call_order(p) ==
    [i \in 1..Len(p.bcall) |-> [pcall |-> p.bcall[i], is_bcall |-> TRUE]]
    \o [i \in 1..Len(p.rcall) |-> [pcall |-> p.rcall[i], is_bcall |-> FALSE]]

\* the group es_xml2 is in: the entry group, or the grp-th rule definition
group(res, g) == IF g = 0 THEN res.entry_calls[1] ELSE res.rule_defs[1][g]

\* variant of itertools_count: one counter for the whole process
stale_count(old) == old

\* n = itertools.count(): a new counter, whatever an earlier one had reached
itertools_count(old) == 0

\* top = ET.Element('rules') with its max_depth and the entry rule
new_top(res) ==
    add_rule(set(Element("rules"), "max_depth",
                 IF res.global_md # "" THEN res.global_md ELSE "1000"),
             set(Element("rule"), "name", "entry"))

\* the rule element of a rule definition
rule_element(p) ==
    LET e0 == set(Element("rule"), "name", p.name[1])
        e1 == IF p.wm # "" THEN set(e0, "weight", p.wm) ELSE e0
        e2 == IF p.md # "" THEN set(e1, "max_depth", p.md) ELSE e1
    IN IF Len(p.successor_rule) > 0 THEN set(e2, "successor", p.successor_rule[1]) ELSE e2

\* prettify(elem): the serialized document
prettify(elem) == <<"<?xml version=\"1.0\" ?>", elem>>

(***************************************************************************)
(* translate_eisen, called file after file by test_examples                *)
(***************************************************************************)
OldText == <<"old">>

Absent == [exists |-> FALSE, data |-> <<>>]

\* variant of output_before_open: the file is opened before parsing
opened_early(pre) == [exists |-> TRUE, data |-> <<>>]

\* the output file while translate_eisen parses and builds: as it was found
output_before_open(pre) == pre

\* lines 219-227 with a source that the grammar matches
ParseOk ==
    /\ pc = "idle"
    /\ ndocs < MaxDocs
    /\ \E s \in Sources, pre \in {Absent, [exists |-> TRUE, data |-> OldText]} :
        /\ pre.exists => xml_dir_exists
        /\ matches(s)
        /\ src' = s
        /\ xml_file' = output_before_open(pre)
        /\ results' = parseFile(s)
    /\ xml_dir_exists' = TRUE
    /\ pc' = "parsed"
    /\ top' = None /\ xml' = None /\ grp' = 0 /\ pos' = 0 /\ cur' = 0
    /\ UNCHANGED <<ndocs, n, trans_list, out>>

\* lines 219-227 with a source that raises ParseException, which test_examples
\* catches (line 240)
ParseFail ==
    /\ pc = "idle"
    /\ ndocs < MaxDocs
    /\ \E s \in Sources, pre \in {Absent, [exists |-> TRUE, data |-> OldText]} :
        /\ pre.exists => xml_dir_exists
        /\ ~matches(s)
        /\ src' = s
        /\ xml_file' = output_before_open(pre)
    /\ xml_dir_exists' = TRUE
    /\ pc' = "failed"
    /\ results' = None
    /\ top' = None /\ xml' = None /\ grp' = 0 /\ pos' = 0 /\ cur' = 0
    /\ UNCHANGED <<ndocs, n, trans_list, out>>

\* es_xml2, lines 187-194
BeginBuild ==
    /\ pc = "parsed"
    /\ pc' = "building"
    /\ n' = itertools_count(n)
    /\ top' = new_top(results)
    /\ grp' = 0 /\ pos' = 0 /\ cur' = 1
    /\ UNCHANGED <<ndocs, xml_dir_exists, src, xml_file, results, xml, trans_list, out>>

\* es_xml2, one turn of the loops at lines 196-199 and 210-213
CallStep ==
    /\ pc = "building"
    /\ pos < Len(call_order(group(results, grp)))
    /\ LET c == call_order(group(results, grp))[pos + 1]
           r == es_call(top, cur, c.pcall, c.is_bcall, n)
       IN top' = r.top /\ n' = r.n
    /\ pos' = pos + 1
    /\ UNCHANGED <<pc, ndocs, xml_dir_exists, src, xml_file, results, grp, cur, xml,
                   trans_list, out>>

\* es_xml2, lines 201-209: the next rule definition
BeginRule ==
    /\ pc = "building"
    /\ pos = Len(call_order(group(results, grp)))
    /\ grp < Len(results.rule_defs[1])
    /\ top' = add_rule(top, rule_element(results.rule_defs[1][grp + 1]))
    /\ cur' = Len(top.children) + 1
    /\ grp' = grp + 1
    /\ pos' = 0
    /\ UNCHANGED <<pc, ndocs, xml_dir_exists, src, xml_file, results, n, xml,
                   trans_list, out>>

\* es_xml2, line 215, and the assignment at line 228
ReturnBuild ==
    /\ pc = "building"
    /\ pos = Len(call_order(group(results, grp)))
    /\ grp = Len(results.rule_defs[1])
    /\ xml' = top
    /\ top' = None
    /\ ndocs' = ndocs + 1
    /\ pc' = "built"
    /\ UNCHANGED <<xml_dir_exists, src, xml_file, results, n, grp, pos, cur,
                   trans_list, out>>

\* line 229: open(xml_filename, 'w') creates or truncates the file
Open ==
    /\ pc = "built"
    /\ xml_file' = [exists |-> TRUE, data |-> <<>>]
    /\ pc' = "opened"
    /\ UNCHANGED <<ndocs, xml_dir_exists, src, results, n, top, grp, pos, cur, xml,
                   trans_list, out>>

\* lines 230-231
WriteClose ==
    /\ pc = "opened"
    /\ xml_file' = [xml_file EXCEPT !.data = prettify(xml)]
    /\ pc' = "closed"
    /\ UNCHANGED <<ndocs, xml_dir_exists, src, results, n, top, grp, pos, cur, xml,
                   trans_list, out>>

\* test_examples, lines 236-241: translate_eisen has returned, or has raised and
\* 'failed' is printed; its locals are gone and the loop goes on to the next name
NextFile ==
    /\ pc \in {"failed", "closed"}
    /\ pc' = "idle"
    /\ src' = None /\ results' = None /\ xml' = None /\ xml_file' = Absent
    /\ grp' = 0 /\ pos' = 0 /\ cur' = 0
    /\ UNCHANGED <<ndocs, xml_dir_exists, n, top, trans_list, out>>

Init ==
    /\ pc = "idle"
    /\ ndocs = 0
    /\ xml_dir_exists \in BOOLEAN
    /\ src = None
    /\ xml_file = Absent
    /\ results = None
    /\ n = 0
    /\ top = None /\ xml = None
    /\ grp = 0 /\ pos = 0 /\ cur = 0
    /\ trans_list = None /\ out = <<>>

Next ==
    \/ ParseOk
    \/ ParseFail
    \/ BeginBuild
    \/ CallStep
    \/ BeginRule
    \/ ReturnBuild
    \/ Open
    \/ WriteClose
    \/ NextFile

Spec == Init /\ [][Next]_vars

(***************************************************************************)
(* trans_str on its own: any list of geometry transforms, normalized       *)
(* again and again                                                         *)
(***************************************************************************)
ValueLists == {<<"1">>, <<"1", "2">>, <<"1", "2", "3">>}

Transforms == {Clause(tid, tv) : tid \in Tids, tv \in ValueLists}

InitNorm ==
    /\ trans_list \in BoundedSeq(Transforms, MaxTrans)
    /\ out = <<>>
    /\ pc = "idle" /\ ndocs = 0 /\ xml_dir_exists = FALSE /\ src = None
    /\ xml_file = Absent /\ results = None /\ n = 0 /\ top = None /\ xml = None
    /\ grp = 0 /\ pos = 0 /\ cur = 0

\* one call trans_str(trans_list)
Normalize ==
    /\ Len(out) < MaxApply
    /\ out' = Append(out, trans_str(trans_list))
    /\ trans_list' = trans_str_effect(trans_list)
    /\ UNCHANGED mainvars

SpecNorm == InitNorm /\ [][Normalize]_vars

(***************************************************************************)
(* What the properties below speak about                                   *)
(***************************************************************************)
\* the calls the source text gives the group g, in source order
SrcCalls(g) ==
    IF g = 0
    THEN SubSeq(src, entry_start(src), entry_end(src, entry_start(src)))
    ELSE src[entry_end(src, entry_start(src)) + g].body

\* the same calls in the order the builder handles them
SrcHandled(g) ==
    SelectSeq(SrcCalls(g), is_shape_call) \o SelectSeq(SrcCalls(g), is_rule_call)

\* a step of the builder that handles one call site
IsCallStep == pc = "building" /\ pc' = "building" /\ grp' = grp /\ pos' = pos + 1

\* the call site such a step handles
SrcCur == SrcHandled(grp)[pos + 1]

\* the canonical operation code of a transform
OpCode(c) ==
    IF c.tid = "s" /\ Len(c.tvalues) = 1 THEN "sa"
    ELSE IF c.tid = "x" THEN "tx"
    ELSE IF c.tid = "y" THEN "ty"
    ELSE IF c.tid = "z" THEN "tz"
    ELSE c.tid

RECURSIVE Spaced(_)
Spaced(strs) ==
    IF Len(strs) = 0 THEN ""
    ELSE IF Len(strs) = 1 THEN strs[1]
    ELSE strs[1] \o " " \o Spaced(Tail(strs))

\* "<op> <value1> <value2> ..." of the clauses, single spaces in between
SpacedText(clauses) ==
    Spaced([i \in 1..Len(clauses) |-> Spaced(<<OpCode(clauses[i])>> \o clauses[i].tvalues)])

IsGeometry(c) == c.tid \in {"x", "y", "z", "s", "rx", "ry", "rz"}

\* the transforms attribute a loop of the source should give
LoopText(l) == SpacedText(SelectSeq(l.clauses, IsGeometry))

\* the element e carries the transforms and the count of the source loop l
Carries(e, l) ==
    /\ e.attrib["transforms"] = LoopText(l)
    /\ IF l.count = "" THEN "count" \notin DOMAIN e.attrib
       ELSE "count" \in DOMAIN e.attrib /\ e.attrib["count"] = l.count

TargetAttr(c) == IF is_shape_call(c) THEN "shape" ELSE "rule"

\* the sequence number k in decimal, zero-padded to two digits
Padded(k) == IF k < 10 THEN "0" \o ToString(k) ELSE ToString(k)

\* the document after the step is the document before plus one child at the
\* end of the current rule and, with added = 1, one rule at the end
OnlyAdds(added) ==
    /\ Len(top'.children) = Len(top.children) + added
    /\ \A i \in 1..Len(top.children) : i # cur => top'.children[i] = top.children[i]
    /\ top'.attrib = top.attrib
    /\ top'.children[cur].attrib = top.children[cur].attrib
    /\ Len(top'.children[cur].children) = Len(top.children[cur].children) + 1
    /\ SubSeq(top'.children[cur].children, 1, Len(top.children[cur].children))
           = top.children[cur].children

\* the call element the step added to the current rule
Site == top'.children[cur].children[Len(top'.children[cur].children)]

\* the rule the step added to the document
NewRule == top'.children[Len(top'.children)]

\* the step flattened the first two loops of the call c into one synthesized rule
Flattened(c) ==
    /\ OnlyAdds(1)
    /\ NewRule.tag = "rule"
    /\ NewRule.attrib["name"] = c.name \o "_" \o Padded(n)
    /\ Site.attrib[TargetAttr(c)] = NewRule.attrib["name"]
    /\ Carries(Site, c.loops[1])
    /\ Len(NewRule.children) = 1
    /\ NewRule.children[1].attrib[TargetAttr(c)] = c.name
    /\ Carries(NewRule.children[1], c.loops[2])

(***************************************************************************)
(* C1                                                                      *)
(***************************************************************************)
\* C1 (as amended): handling a call site with exactly two loops adds exactly one
\* rule, named <target>_NN with NN the sequence number zero-padded to at least
\* two digits; the call emitted in the current rule targets that name and
\* carries the first loop's transforms and count; the synthesized rule holds
\* exactly one call, which targets the original name and carries the second
\* loop's transforms and count.
C1_TwoLoopsFlattened ==
    [][(IsCallStep /\ Len(SrcCur.loops) = 2) => Flattened(SrcCur)]_vars

\* C1 as stated: the same, and the number NN has exactly two digits.
C1_TwoDigitName ==
    [][(IsCallStep /\ Len(SrcCur.loops) = 2) =>
          /\ Flattened(SrcCur)
          /\ Len(NewRule.attrib["name"]) = Len(SrcCur.name) + 3]_vars

\* a two-loop call of a rule body has just been handled, after an earlier one
C1_Witness ==
    /\ pc = "building" /\ grp >= 1 /\ pos >= 1
    /\ Len(SrcHandled(grp)[pos].loops) = 2
    /\ n = 2
    /\ top.children[Len(top.children)].attrib["name"] = "foo_01"

(***************************************************************************)
(* C2                                                                      *)
(***************************************************************************)
\* C2: in every document es_xml2 returns, the rule names are pairwise distinct.
C2_RuleNamesDistinct ==
    pc = "built" =>
        \A i, j \in 1..Len(xml.children) :
            i # j => xml.children[i].attrib["name"] # xml.children[j].attrib["name"]

(***************************************************************************)
(* C3                                                                      *)
(***************************************************************************)
NestedIn(calls) == Cardinality({i \in 1..Len(calls) : Len(calls[i].loops) >= 2})

RECURSIVE NestedBefore(_)
NestedBefore(g) == IF g = 0 THEN 0 ELSE NestedBefore(g - 1) + NestedIn(SrcCalls(g - 1))

\* the call sites with two or more loops handled so far in this build
NestedHandled ==
    LET handled == SrcHandled(grp)
    IN NestedBefore(grp) + Cardinality({i \in 1..pos : Len(handled[i].loops) >= 2})

\* C3: in every build the counter starts at 0 and goes up by exactly one for
\* each call site with two or more loops (and only then), in processing order
\* over the entry block and then the rule definitions, so each number names one
\* rule of the document; a later build of the same process starts at 0 again.
C3_CounterPerBuild ==
    [][/\ (pc = "parsed" /\ pc' = "building") => n' = 0
       /\ IsCallStep =>
             IF Len(SrcCur.loops) >= 2
             THEN n' = n + 1 /\ NewRule.attrib["name"] = SrcCur.name \o "_" \o Padded(n)
             ELSE n' = n
       /\ (pc = "building" /\ ~IsCallStep) => n' = n
       /\ pc = "building" =>
             /\ n = NestedHandled
             /\ Len(top.children) = 1 + grp + n]_vars

\* a second document of the process is being built, and two nested calls of the
\* same target have been handled in it, one in the entry block and one in a rule
C3_Witness ==
    /\ ndocs = 1 /\ pc = "building" /\ grp >= 1 /\ n = 2
    /\ NestedIn(SrcCalls(0)) = 1
    /\ \E i, j \in 1..Len(top.children) :
          /\ top.children[i].attrib["name"] = "foo_00"
          /\ top.children[j].attrib["name"] = "foo_01"

(***************************************************************************)
(* C4                                                                      *)
(***************************************************************************)
HasDirective(s) ==
    \E i \in 1..Len(s) :
        \/ s[i].t = "define"
        \/ s[i].t = "rule" /\ \E j \in 1..Len(s[i].body) : s[i].body[j].t = "define"

\* C4: a source holding a #define directive, wherever it stands, fails to
\* parse: no document is built or written from it.
C4_DirectiveRejected ==
    HasDirective(src) => pc \notin {"parsed", "building", "built", "opened", "closed"}

(***************************************************************************)
(* C5                                                                      *)
(***************************************************************************)
\* the cases the mapping is stated for: s with one or three values, x, y, z,
\* rx, ry, rz
Stated(c) == c.tid = "s" => Len(c.tvalues) \in {1, 3}

\* C5: trans_str gives s with one value the code sa, s with three values s,
\* x, y, z the codes tx, ty, tz, and leaves rx, ry, rz; applied again to the
\* same list it returns the same string.
C5_Normalized ==
    [][Len(out') = Len(out) + 1 =>
          /\ (Len(out) = 0 /\ \A i \in 1..Len(trans_list) : Stated(trans_list[i])) =>
                /\ out'[1] = SpacedText(trans_list)
                /\ \A i \in 1..Len(trans_list) :
                      trans_list'[i].tid = OpCode(trans_list[i])
          /\ Len(out) >= 1 => out'[Len(out')] = out[1]]_vars

\* { s 1 s 1 2 3 } normalized twice
C5_Witness ==
    /\ Len(out) >= 2
    /\ out[1] = "sa 1 s 1 2 3"
    /\ out[2] = "sa 1 s 1 2 3"
    /\ trans_list[1].tid = "sa"

(***************************************************************************)
(* C6                                                                      *)
(***************************************************************************)
\* C6: handling a call site with exactly one loop adds no rule and one call
\* element, which targets the original name, has as transforms the loop's
\* geometry transforms "<op> <values>" in source order, single-spaced with
\* nothing trailing, and has the loop's multiplier as count iff there is one.
C6_OneLoopCall ==
    [][(IsCallStep /\ Len(SrcCur.loops) = 1) =>
          /\ OnlyAdds(0)
          /\ Site.tag = (IF is_shape_call(SrcCur) THEN "instance" ELSE "call")
          /\ Site.attrib[TargetAttr(SrcCur)] = SrcCur.name
          /\ Carries(Site, SrcCur.loops[1])
          /\ n' = n]_vars

\* rule foo w 2 { {s 2 hue 120 y 1} foo  3 * {x 1} box } has been handled
C6_Witness ==
    /\ pc = "building" /\ grp >= 1 /\ pos = 2
    /\ Len(top.children[cur].children) = 2
    /\ top.children[cur].children[1].attrib = [shape |-> "box", transforms |-> "tx 1", count |-> "3"]
    /\ top.children[cur].children[2].attrib = [rule |-> "foo", transforms |-> "sa 2 ty 1"]

(***************************************************************************)
(* C7                                                                      *)
(***************************************************************************)
\* an entry block of calls without doubly-nested loops and nothing else
EntryOnly(s) ==
    /\ Len(s) >= 1
    /\ \A i \in 1..Len(s) : s[i].t = "call" /\ Len(s[i].loops) <= 1

\* C7: a source that is an entry block and no rule definitions is translated:
\* it does not fail, and its document holds exactly one rule, named entry, with
\* the entry block's calls.
C7_EntryOnlyTranslated ==
    EntryOnly(src) =>
        /\ pc # "failed"
        /\ pc = "built" =>
              /\ Len(xml.children) = 1
              /\ xml.children[1].attrib["name"] = "entry"
              /\ Len(xml.children[1].children) = Len(src)

(***************************************************************************)
(* C8                                                                      *)
(***************************************************************************)
\* the output file has been created, truncated or written by this translation
Touched == xml_file.exists /\ xml_file.data # OldText

\* C8: the output file is opened and written only after parsing and building
\* have completed: while translate_eisen parses or builds, and when parsing has
\* failed, the file is as it was found, absent or with its old content.
C8_OutputAfterBuild ==
    /\ Touched => pc \in {"opened", "closed"}
    /\ pc \in {"opened", "closed"} =>
          Len(xml.children) = 1 + Len(results.rule_defs[1]) + n

\* parsing has failed and the output file that was there still has its content
C8_Witness ==
    /\ pc = "failed"
    /\ HasDirective(src)
    /\ xml_file = [exists |-> TRUE, data |-> OldText]

(***************************************************************************)
(* C9                                                                      *)
(***************************************************************************)
\* the builder is through with the calls of the current group
GroupDone == pc = "building" /\ pos = Len(SrcCalls(grp))

\* what is compared: the kind of element and its transforms
SrcView(c) ==
    <<IF is_shape_call(c) THEN "instance" ELSE "call",
      IF Len(c.loops) = 0 THEN "" ELSE LoopText(c.loops[1])>>

SrcViews(g) == [i \in 1..Len(SrcCalls(g)) |-> SrcView(SrcCalls(g)[i])]

KidViews ==
    [i \in 1..Len(top.children[cur].children) |->
        <<top.children[cur].children[i].tag,
          top.children[cur].children[i].attrib["transforms"]>>]

IsInstanceView(v) == v[1] = "instance"

IsCallView(v) == v[1] = "call"

RuleCallBeforeShapeCall(g) ==
    \E i, j \in 1..Len(SrcCalls(g)) :
        i < j /\ is_rule_call(SrcCalls(g)[i]) /\ is_shape_call(SrcCalls(g)[j])

\* C9: the children of the entry rule and of every explicit rule are the
\* instance elements of its shape calls in source order, then the call elements
\* of its rule calls in source order; that is the source order exactly when no
\* rule call precedes a shape call in the body.
C9_InstancesThenCalls ==
    GroupDone =>
        /\ KidViews = SelectSeq(SrcViews(grp), IsInstanceView)
                        \o SelectSeq(SrcViews(grp), IsCallView)
        /\ (KidViews = SrcViews(grp)) <=> ~RuleCallBeforeShapeCall(grp)

\* rule foo w 2 { {s 2 hue 120 y 1} foo  3 * {x 1} box }: the box comes first
C9_Witness ==
    /\ GroupDone /\ grp >= 1
    /\ RuleCallBeforeShapeCall(grp)
    /\ KidViews = << <<"instance", "tx 1">>, <<"call", "sa 2 ty 1">> >>

(***************************************************************************)
(* C10                                                                     *)
(***************************************************************************)
\* a file of the grammar: an optional global depth, calls, rule definitions
\* with calls in them, and nothing else
WellFormed(s) ==
    \E e \in 1..Len(s) :
        /\ e < Len(s)
        /\ \A i \in 1..e : s[i].t = "call" \/ (i = 1 /\ e > 1 /\ s[i].t = "set_md")
        /\ \A i \in (e + 1)..Len(s) :
              /\ s[i].t = "rule"
              /\ Len(s[i].body) >= 1
              /\ \A j \in 1..Len(s[i].body) : s[i].body[j].t = "call"

\* C10: a call with three or more loops does not keep a file of the grammar
\* from parsing, and is handled like a call with two loops: one counter value,
\* one synthesized rule, the first loop at the call site, the second in the
\* synthesized rule, and nothing else added to the document.
C10_DeeperLoopsDropped ==
    [][/\ (pc = "idle" /\ pc' # "idle" /\ WellFormed(src')) => pc' = "parsed"
       /\ (IsCallStep /\ Len(SrcCur.loops) >= 3) =>
             /\ Flattened(SrcCur)
             /\ n' = n + 1]_vars

\* the three-loop call 2*{rz 5} 3*{ry 10} 4*{s 1 1 1} foo has been handled
C10_Witness ==
    /\ pc = "building" /\ pos >= 1
    /\ Len(SrcHandled(grp)[pos].loops) = 3
    /\ top.children[cur].children[pos].attrib["transforms"] = "rz 5"
    /\ top.children[Len(top.children)].children[1].attrib["transforms"] = "ry 10"

====
